---- MODULE Spec2Model ----
(***************************************************************************)
(* A model of bot.py: the single thread of start_bot, which polls the      *)
(* three scheduled jobs (farming_cycle, compound_cycle, check_staking),    *)
(* the seven API operations and safe_request with its retry loop.          *)
(*                                                                         *)
(* Time is counted in seconds since the jobs were registered.  Reward      *)
(* amounts are counted in tenths (0.3 is 3, 1.0 is 10, 2.5 is 25).         *)
(* One step of the model is one blocking point of the thread: an HTTP      *)
(* attempt, a time.sleep, or the code between two of them.  Time passes in *)
(* the sleeps; the duration of an HTTP attempt is not modelled.            *)
(***************************************************************************)
EXTENDS Integers, Sequences, FiniteSets, TLC

VARIABLES
    API_KEY,        \* os.getenv("TENEO_API_KEY")
    WALLET_ADDRESS, \* os.getenv("WALLET_ADDRESS")
    jobs,       \* schedule's list of registered jobs, in registration order
    last_start, \* when each job was last started (-1: never)
    collected,  \* the runnable jobs run_pending collected at the last tick, sorted
    ran,        \* the jobs run_pending has started since the last tick, in order
    now,        \* the wall clock (datetime.now / time.time)
    next_run,   \* schedule's Job.next_run of each registered job
    pc,         \* where the thread is: import, main, loop, pending, request, returned,
                \* except, or EnvironmentError (the module could not be imported)
    queue,      \* the sorted runnable jobs run_pending has still to run
    tick,       \* when run_pending last collected the runnable jobs
    stack,      \* the call stack below run_pending: << cycle >> or << cycle, operation >>
    attempt,    \* safe_request's loop variable
    data,       \* what safe_request returned to the operation on top of the stack
    activity,   \* farming_cycle's local
    rewards,    \* compound_cycle's local
    trace,      \* the API operations called by the current cycle run, in order
    run,        \* the current (or just ended) cycle run: its job, start and state
    logged,     \* the log entries the last step emitted
    nfail,      \* failed HTTP attempts so far
    ncrash,     \* crashes caught by start_bot so far
    stop        \* TRUE: the exploration stops at the bounds; FALSE: see DueInit

\* what the start of the program sets, and what a step inside a tick leaves alone
config == << API_KEY, WALLET_ADDRESS, jobs >>
history == << last_start, collected, ran >>

vars == << API_KEY, WALLET_ADDRESS, jobs, last_start, collected, ran,
           now, next_run, pc, queue, tick, stack, attempt, data, activity, rewards,
           trace, run, logged, nfail, ncrash, stop >>

(***************************************************************************)
(* Bounds of the model.                                                    *)
(***************************************************************************)
\* the clock is followed up to MaxTime: one hour, the three backoffs of one
\* call and the sleep between claim and stake
MaxTime == 3617
\* at most MaxFails HTTP attempts fail in one behaviour
MaxFails == 3
\* at most MaxCrashes cycle runs raise in one behaviour
MaxCrashes == 1

(***************************************************************************)
(* The program's constants.                                                *)
(***************************************************************************)
ACTIVITY_THRESHOLD == 75
REWARD_THRESHOLD == 10
COMPOUND_INTERVAL_MINUTES == 60
FARM_INTERVAL_MINUTES == 15
STAKING_INTERVAL_MINUTES == 30
MAX_RETRIES == 3
BACKOFF_BASE == 2
SETTLE_SLEEP == 5
POLL_SLEEP == 5
CRASH_SLEEP == 10
SECONDS_PER_MINUTE == 60

(***************************************************************************)
(* Decoded JSON values (what r.json() returns), as Python sees them.       *)
(*   t  : null, bool, num, str, list, obj                                  *)
(*   n  : the number, 1/0 for a bool, the length of a str, list or obj     *)
(*   ft, fn : for an obj, the type and number of the field the operation   *)
(*            reads (ft = "missing" when the object has no such field)     *)
(* Python's None is the decoded JSON null.                                 *)
(***************************************************************************)
None == [t |-> "null", n |-> 0, ft |-> "na", fn |-> 0]
Bool(b) == [t |-> "bool", n |-> IF b THEN 1 ELSE 0, ft |-> "na", fn |-> 0]
Num(k) == [t |-> "num", n |-> k, ft |-> "na", fn |-> 0]
Str(len) == [t |-> "str", n |-> len, ft |-> "na", fn |-> 0]
List(len) == [t |-> "list", n |-> len, ft |-> "na", fn |-> 0]
EmptyObj == [t |-> "obj", n |-> 0, ft |-> "missing", fn |-> 0]
ObjWithout == [t |-> "obj", n |-> 1, ft |-> "missing", fn |-> 0]
ObjWith(v) == [t |-> "obj", n |-> 1, ft |-> v.t, fn |-> v.n]

\* Python's truth value of a decoded JSON value (`if data`, `not x`, `x if p else y`)
Truthy(v) ==
    CASE v.t = "null" -> FALSE
      [] v.t = "bool" -> v.n = 1
      [] v.t = "num" -> v.n # 0
      [] OTHER -> v.n > 0

\* data.get exists only on a dict: on any other value the attribute lookup raises
HasGet(v) == v.t = "obj"

\* dict.get(field, default)
Get(v, default) ==
    IF v.ft = "missing" THEN default ELSE [t |-> v.ft, n |-> v.fn, ft |-> "na", fn |-> 0]

\* `x >= number` is defined for numbers and bools; it raises TypeError otherwise
Comparable(v) == v.t \in {"num", "bool"}


\* `v >= threshold`, for a value counted in `unit`s per one (a bool counts as 0 or 1)
AtLeast(v, threshold, unit) ==
    (IF v.t = "bool" THEN v.n * unit ELSE v.n) >= threshold

(***************************************************************************)
(* The registered jobs, in registration order, and the API operations.     *)
(***************************************************************************)
Jobs == << "farming_cycle", "compound_cycle", "check_staking" >>
JobSet == {Jobs[i] : i \in 1..Len(Jobs)}

ReadOps == {"get_activity_score", "is_peak_time", "get_current_rewards",
            "get_staking_status"}
WriteOps == {"perform_farming_action", "claim_rewards", "stake_rewards"}
Ops == ReadOps \cup WriteOps

\* schedule.every(N).minutes: the period of a job, in seconds
Period(j) ==
    CASE j = "farming_cycle" -> FARM_INTERVAL_MINUTES * SECONDS_PER_MINUTE
      [] j = "compound_cycle" -> COMPOUND_INTERVAL_MINUTES * SECONDS_PER_MINUTE
      [] j = "check_staking" -> STAKING_INTERVAL_MINUTES * SECONDS_PER_MINUTE

\* the url each operation builds
Url(op) ==
    CASE op = "get_activity_score" -> "/activity/{wallet}"
      [] op = "is_peak_time" -> "/rewards/peak-times"
      [] op = "get_current_rewards" -> "/rewards/current/{wallet}"
      [] op = "get_staking_status" -> "/staking/status/{wallet}"
      [] op = "perform_farming_action" -> "/farm"
      [] op = "claim_rewards" -> "/rewards/claim"
      [] op = "stake_rewards" -> "/staking/stake"

\* defaults that assume the best when nothing is known: a high score, a
\* large amount, a peak time, a staked wallet
Default_Optimistic(op) ==
    IF op \in {"get_activity_score", "get_current_rewards"} THEN Num(100) ELSE Bool(TRUE)

\* the default of data.get(field, default) and of the `else` branch of each read
Default(op) ==
    CASE op = "get_activity_score" -> Num(0)
      [] op = "is_peak_time" -> Bool(FALSE)
      [] op = "get_current_rewards" -> Num(0)
      [] op = "get_staking_status" -> Bool(FALSE)

\* `data.get(field, default) if data else default`; raises when data is truthy
\* and has no get
ReadRaises(op, d) == Truthy(d) /\ ~HasGet(d)
\* a read that hands the absence on instead of its default
ReadResult_PassesAbsence(op, d) == IF Truthy(d) THEN Get(d, Default(op)) ELSE d

ReadResult(op, d) == IF Truthy(d) THEN Get(d, Default(op)) ELSE Default(op)

(***************************************************************************)
(* What the remote API may answer: the payloads an HTTP attempt can decode.*)
(***************************************************************************)
FieldValues(op) ==
    CASE op = "get_activity_score" -> {Num(50), Num(75), Num(80), None, Str(2)}
      [] op = "is_peak_time" -> {Bool(TRUE), Bool(FALSE)}
      [] op = "get_current_rewards" -> {Num(3), Num(10), Num(25), None}
      [] op = "get_staking_status" -> {Bool(TRUE), Bool(FALSE)}

Payloads(op) ==
    IF op \in ReadOps
    THEN {None, EmptyObj, ObjWithout, List(1)} \cup {ObjWith(v) : v \in FieldValues(op)}
    ELSE {None, EmptyObj, ObjWithout}

(***************************************************************************)
(* log(msg, level): one entry of the log sink.                             *)
(***************************************************************************)
Entry(level, msg, text, val) == [level |-> level, msg |-> msg, text |-> text, val |-> val]
Info(msg, text, val) == Entry("info", msg, text, val)
Error(msg, text) == Entry("error", msg, text, None)

(***************************************************************************)
(* The record kept of one call of an API operation, and of one cycle run.  *)
(*   t0, t1 : when the operation was called, when safe_request returned    *)
(*   outs : the outcome of each HTTP attempt made, in order (ok or fail)   *)
(*   waits : the backoff delays slept, in order                            *)
(*   errs, maxed : 'Request error' and 'Max retries reached' entries       *)
(*   got : the payload the successful attempt decoded                      *)
(*   res : what safe_request returned;  ret : what the operation returned  *)
(*   st : open (in safe_request), back (safe_request returned), returned,  *)
(*        raised                                                           *)
(***************************************************************************)
NewCall(op, arg, t) ==
    [op |-> op, arg |-> arg, t0 |-> t, t1 |-> t, outs |-> << >>,
     waits |-> << >>, errs |-> 0, maxed |-> 0, got |-> None,
     res |-> None, ret |-> None, st |-> "open"]

Tries(e) == Len(e.outs)
Fails(e) == Cardinality({k \in 1..Len(e.outs) : e.outs[k] = "fail"})
Succeeded(e) == \E k \in 1..Len(e.outs) : e.outs[k] = "ok"

NoRun == [job |-> "none", t0 |-> 0, st |-> "none"]

Top == trace[Len(trace)]
SetTop(e) == [trace EXCEPT ![Len(trace)] = e]
Closed(ret, st) == SetTop([Top EXCEPT !.ret = ret, !.st = st])

\* the number of entries of a sequence of log entries with the given message
RECURSIVE Count(_, _)
Count(lines, msg) ==
    IF lines = << >> THEN 0
    ELSE (IF Head(lines).msg = msg THEN 1 ELSE 0) + Count(Tail(lines), msg)

(***************************************************************************)
(* schedule: Job.should_run, Job.__lt__ (by next_run) and the stable       *)
(* sorted() of run_pending.                                                *)
(***************************************************************************)
should_run(j) == now >= next_run[j]

RECURSIVE Insert(_, _)
Insert(j, s) ==
    IF s = << >> THEN << j >>
    ELSE IF next_run[j] <= next_run[Head(s)] THEN << j >> \o s
    ELSE << Head(s) >> \o Insert(j, Tail(s))

RECURSIVE Sorted(_)
Sorted(s) == IF s = << >> THEN << >> ELSE Insert(Head(s), Sorted(Tail(s)))

Runnable == Sorted(SelectSeq(jobs, should_run))

(***************************************************************************)
(* The decisions of the code.                                              *)
(***************************************************************************)
\* a retry loop that runs one attempt too many: range(MAX_RETRIES + 1)
MoreAttempts_OneMore(a) == a <= MAX_RETRIES

\* range(MAX_RETRIES): the loop runs its body for attempt a
MoreAttempts(a) == a < MAX_RETRIES

\* time.sleep(2 * (attempt + 1))
Backoff(a) == BACKOFF_BASE * (a + 1)

\* the two strategies the wrong way round
StrategyOf_Swapped(peak) == IF Truthy(peak) THEN "standard" ELSE "peak"

\* "peak" if peak else "standard"
StrategyOf(peak) == IF Truthy(peak) THEN "peak" ELSE "standard"

\* activity >= ACTIVITY_THRESHOLD
ShouldFarm(a) == AtLeast(a, ACTIVITY_THRESHOLD, 1)

\* rewards > REWARD_THRESHOLD instead of >=
ShouldCompound_Strict(r) == AtLeast(r, REWARD_THRESHOLD + 1, 10)

\* rewards >= REWARD_THRESHOLD, both in tenths
ShouldCompound(r) == AtLeast(r, REWARD_THRESHOLD, 10)

\* the test of check_staking without its `not`
ShouldStake_Inverted(s) == Truthy(s)

\* not get_staking_status()
ShouldStake(s) == ~Truthy(s)

\* a write operation that ends with `return data`
WriteReturn_Payload(d) == d

\* the write operations end without a return statement
WriteReturn(d) == None

(***************************************************************************)
(* The initial state: the module is about to be imported, in an            *)
(* environment (after load_dotenv) that sets, sets to the empty string or  *)
(* does not set each of the two variables; no job is registered.           *)
(***************************************************************************)
\* os.getenv of a variable: None, the empty string or a value
EnvValues == { "None", "", "set" }

\* a check that only looks for a variable that is not set: `is None`
Missing_OnlyUnset(v) == v = "None"

\* `not v` of an os.getenv result
Missing(v) == v \in { "None", "" }

Init ==
    /\ API_KEY \in EnvValues
    /\ WALLET_ADDRESS \in EnvValues
    /\ jobs = << >>
    /\ last_start = [j \in JobSet |-> -1]
    /\ collected = << >>
    /\ ran = << >>
    /\ now = 0
    /\ next_run = << >>
    /\ pc = "import"
    /\ queue = << >>
    /\ tick = now
    /\ stack = << >>
    /\ attempt = 0
    /\ data = None
    /\ activity = None
    /\ rewards = None
    /\ trace = << >>
    /\ run = NoRun
    /\ logged = << >>
    /\ nfail = 0
    /\ ncrash = 0
    /\ stop = TRUE

\* time passes: time.sleep(d)
Advance(d) ==
    IF stop
    THEN now + d <= MaxTime /\ now' = now + d
    ELSE now' = IF now + d <= MaxTime THEN now + d ELSE MaxTime

\* a counter of the behaviour, kept below its bound
Below(counter, bound) == stop => counter < bound
Counted(counter) == IF stop THEN counter + 1 ELSE counter

(***************************************************************************)
(* How a step of a cycle ends: by calling the next operation, by returning *)
(* to Job.run (which sets last_run and schedules the next run), or by      *)
(* raising to the except clause of start_bot.                              *)
(***************************************************************************)
Call(entries, op, arg) ==
    /\ pc' = "request"
    /\ stack' = << run.job, op >>
    /\ attempt' = 0
    /\ data' = None
    /\ trace' = Append(entries, NewCall(op, arg, now'))
    /\ UNCHANGED << queue, next_run, run >>

\* a run_pending that looks again for runnable jobs after each job it ran
Return_Rescan(entries) ==
    /\ pc' = "pending"
    /\ stack' = << >>
    /\ attempt' = 0
    /\ data' = None
    /\ trace' = entries
    /\ next_run' = [next_run EXCEPT ![run.job] = now' + Period(run.job)]
    /\ run' = [run EXCEPT !.st = "returned"]
    /\ activity' = None
    /\ rewards' = None
    /\ queue' = Sorted(SelectSeq(jobs, LAMBDA j : now' >= next_run'[j]))

Return(entries) ==
    /\ pc' = "pending"
    /\ stack' = << >>
    /\ attempt' = 0
    /\ data' = None
    /\ trace' = entries
    /\ next_run' = [next_run EXCEPT ![run.job] = now' + Period(run.job)]
    /\ run' = [run EXCEPT !.st = "returned"]
    /\ activity' = None
    /\ rewards' = None
    /\ UNCHANGED queue

Raise(entries) ==
    /\ pc' = "except"
    /\ stack' = << >>
    /\ attempt' = 0
    /\ data' = None
    /\ trace' = entries
    /\ queue' = << >>
    /\ run' = [run EXCEPT !.st = "raised"]
    /\ activity' = None
    /\ rewards' = None
    /\ UNCHANGED next_run

(***************************************************************************)
(* The start of the program: the import of the module, then start_bot up   *)
(* to its loop.                                                            *)
(***************************************************************************)
\* the module level: load_dotenv, os.getenv, and the check of the two values
check_env ==
    /\ pc = "import"
    /\ pc' = IF Missing(API_KEY) \/ Missing(WALLET_ADDRESS)
             THEN "EnvironmentError" ELSE "main"
    /\ UNCHANGED << now, next_run, queue, tick, stack, attempt, data, activity, rewards,
                    trace, run, logged, nfail, ncrash, stop, config, history >>

\* start_bot before its loop: log the start and register the three jobs
start_bot ==
    /\ pc = "main"
    /\ pc' = "loop"
    /\ logged' = << Info("Teneo Bot Started", "", None) >>
    /\ jobs' = Jobs
    /\ next_run' = [j \in JobSet |-> now + Period(j)]
    /\ UNCHANGED << now, queue, tick, stack, attempt, data, activity, rewards, trace, run,
                    nfail, ncrash, stop, API_KEY, WALLET_ADDRESS, history >>

(***************************************************************************)
(* start_bot: the loop.                                                    *)
(***************************************************************************)
\* schedule.run_pending(): collect the runnable jobs and sort them
run_pending ==
    /\ pc = "loop"
    /\ pc' = "pending"
    /\ queue' = Runnable
    /\ tick' = now
    /\ trace' = << >>
    /\ run' = NoRun
    /\ logged' = << >>
    /\ collected' = Runnable
    /\ ran' = << >>
    /\ UNCHANGED << now, next_run, stack, attempt, data, activity, rewards, nfail, ncrash,
                    stop, API_KEY, WALLET_ADDRESS, jobs, last_start >>

\* Job.run of the next runnable job: the cycle starts with its first read
RunJob(j, op) ==
    /\ pc = "pending"
    /\ queue # << >>
    /\ Head(queue) = j
    /\ queue' = Tail(queue)
    /\ run' = [job |-> j, t0 |-> now, st |-> "running"]
    /\ pc' = "request"
    /\ stack' = << j, op >>
    /\ attempt' = 0
    /\ trace' = << NewCall(op, "", now) >>
    /\ logged' = << >>
    /\ last_start' = [last_start EXCEPT ![j] = now]
    /\ ran' = Append(ran, j)
    /\ UNCHANGED << now, next_run, data, activity, rewards, nfail, ncrash, stop, tick,
                    API_KEY, WALLET_ADDRESS, jobs, collected >>

farming_cycle == RunJob("farming_cycle", "get_activity_score")

compound_cycle == RunJob("compound_cycle", "get_current_rewards")

check_staking == RunJob("check_staking", "get_staking_status")

\* run_pending has run every runnable job: time.sleep(5), then the next tick
start_bot_sleep ==
    /\ pc = "pending"
    /\ queue = << >>
    /\ Advance(POLL_SLEEP)
    /\ pc' = "loop"
    /\ trace' = << >>
    /\ run' = NoRun
    /\ logged' = << >>
    /\ UNCHANGED << next_run, queue, stack, attempt, data, activity, rewards, nfail, ncrash, stop, config, history, tick >>

\* a loop without the except clause: the error ends start_bot
start_bot_uncaught ==
    /\ pc = "except"
    /\ pc' = "exit"
    /\ UNCHANGED << now, next_run, queue, tick, stack, attempt, data, activity, rewards,
                    trace, run, logged, nfail, ncrash, stop, config, history >>

\* except Exception: log the crash, time.sleep(10), then the next tick
start_bot_except ==
    /\ pc = "except"
    /\ Below(ncrash, MaxCrashes)
    /\ Advance(CRASH_SLEEP)
    /\ pc' = "loop"
    /\ logged' = << Error("Bot crashed", "") >>
    /\ ncrash' = Counted(ncrash)
    /\ trace' = << >>
    /\ run' = NoRun
    /\ UNCHANGED << next_run, queue, stack, attempt, data, activity, rewards, nfail, stop, config, history, tick >>

(***************************************************************************)
(* safe_request: one HTTP attempt of the retry loop.                       *)
(***************************************************************************)
\* a safe_request that gives up without a word
FailLines_SilentExhaustion(op, more) == << Error("Request error", Url(op)) >>

\* what a failed attempt logs: the error and, when the loop ends with it,
\* the exhaustion of the retries, both with the url
FailLines(op, more) ==
    << Error("Request error", Url(op)) >>
    \o (IF more THEN << >> ELSE << Error("Max retries reached", Url(op)) >>)

\* the attempt succeeds and decodes payload p: return r.json()
Respond(p) ==
    /\ data' = p
    /\ pc' = "returned"
    /\ trace' = SetTop([Top EXCEPT !.outs = Append(@, "ok"), !.got = p,
                                   !.res = p, !.t1 = now, !.st = "back"])
    /\ logged' = << >>
    /\ UNCHANGED << now, next_run, queue, stack, attempt, activity, rewards, run,
                    nfail, ncrash, stop, config, history, tick >>

\* the attempt raises a RequestException: log it, sleep the backoff, and
\* either try again or log the exhaustion and return None
Fail ==
    LET wait == Backoff(attempt)
        more == MoreAttempts(attempt + 1)
        lines == FailLines(Top.op, more)
    IN  /\ Below(nfail, MaxFails)
        /\ Advance(wait)
        /\ attempt' = attempt + 1
        /\ nfail' = Counted(nfail)
        /\ data' = None
        /\ pc' = IF more THEN "request" ELSE "returned"
        /\ logged' = lines
        /\ trace' = SetTop([Top EXCEPT !.outs = Append(@, "fail"),
                                       !.waits = Append(@, wait),
                                       !.errs = @ + Count(lines, "Request error"),
                                       !.maxed = @ + Count(lines, "Max retries reached"),
                                       !.res = None, !.t1 = now',
                                       !.st = IF more THEN "open" ELSE "back"])
        /\ UNCHANGED << next_run, queue, stack, activity, rewards, run, ncrash, stop, config, history, tick >>

safe_request ==
    /\ pc = "request"
    /\ \/ \E p \in Payloads(Top.op) : Respond(p)
       \/ Fail

(***************************************************************************)
(* The API operations, from the return of safe_request on, each followed   *)
(* by the code of the calling cycle up to its next call.                   *)
(***************************************************************************)
\* get_activity_score returns; farming_cycle calls is_peak_time
get_activity_score ==
    /\ pc = "returned"
    /\ Top.op = "get_activity_score"
    /\ UNCHANGED << now, nfail, ncrash, stop, config, history, tick >>
    /\ logged' = << >>
    /\ IF ReadRaises(Top.op, data)
       THEN Raise(Closed(None, "raised"))
       ELSE LET a == ReadResult(Top.op, data)
            IN  /\ activity' = a
                /\ UNCHANGED rewards
                /\ Call(Closed(a, "returned"), "is_peak_time", "")

\* is_peak_time returns; farming_cycle picks the strategy, logs it, and
\* farms or skips
is_peak_time ==
    /\ pc = "returned"
    /\ Top.op = "is_peak_time"
    /\ UNCHANGED << now, nfail, ncrash, stop, config, history, tick >>
    /\ IF ReadRaises(Top.op, data)
       THEN /\ logged' = << >>
            /\ Raise(Closed(None, "raised"))
       ELSE LET peak == ReadResult(Top.op, data)
                strategy == StrategyOf(peak)
                line == Info("Strategy selected", strategy, activity)
                entries == Closed(peak, "returned")
            IN  IF ~Comparable(activity)
                THEN /\ logged' = << line >>
                     /\ Raise(entries)
                ELSE IF ShouldFarm(activity)
                THEN /\ logged' = << line >>
                     /\ UNCHANGED << activity, rewards >>
                     /\ Call(entries, "perform_farming_action", strategy)
                ELSE /\ logged' = << line, Info("Activity too low, skipping farming", "", activity) >>
                     /\ Return(entries)

\* perform_farming_action logs the outcome and ends; farming_cycle returns
perform_farming_action ==
    /\ pc = "returned"
    /\ Top.op = "perform_farming_action"
    /\ UNCHANGED << now, nfail, ncrash, stop, config, history, tick >>
    /\ logged' = IF Truthy(data)
                 THEN << Info("Farming performed", Top.arg, None) >>
                 ELSE << Error("Farming failed", "") >>
    /\ Return(Closed(WriteReturn(data), "returned"))

\* get_current_rewards logs the amount and returns; compound_cycle claims or not
get_current_rewards ==
    /\ pc = "returned"
    /\ Top.op = "get_current_rewards"
    /\ UNCHANGED << now, nfail, ncrash, stop, config, history, tick >>
    /\ IF ReadRaises(Top.op, data)
       THEN /\ logged' = << >>
            /\ Raise(Closed(None, "raised"))
       ELSE LET r == ReadResult(Top.op, data)
                line == Info("Current unclaimed rewards", "", r)
                entries == Closed(r, "returned")
            IN  IF ~Comparable(r)
                THEN /\ logged' = << line >>
                     /\ Raise(entries)
                ELSE IF ShouldCompound(r)
                THEN /\ logged' = << line >>
                     /\ rewards' = r
                     /\ UNCHANGED activity
                     /\ Call(entries, "claim_rewards", "")
                ELSE /\ logged' = << line, Info("Not enough rewards to compound", "", None) >>
                     /\ Return(entries)

\* claim_rewards logs the outcome and ends; compound_cycle sleeps 5 seconds
\* and calls stake_rewards
claim_rewards ==
    /\ pc = "returned"
    /\ Top.op = "claim_rewards"
    /\ Advance(SETTLE_SLEEP)
    /\ UNCHANGED << activity, rewards, nfail, ncrash, stop, config, history, tick >>
    /\ logged' = IF Truthy(data)
                 THEN << Info("Rewards claimed", "", data) >>
                 ELSE << Error("Claim failed", "") >>
    /\ Call(Closed(WriteReturn(data), "returned"), "stake_rewards", "")

\* stake_rewards logs the outcome and ends; its caller (compound_cycle, which
\* logs the compounded amount, or check_staking) returns
stake_rewards ==
    /\ pc = "returned"
    /\ Top.op = "stake_rewards"
    /\ UNCHANGED << now, nfail, ncrash, stop, config, history, tick >>
    /\ logged' = (IF Truthy(data)
                  THEN << Info("Rewards re-staked", "", None) >>
                  ELSE << Error("Re-staking failed", "") >>)
                 \o (IF run.job = "compound_cycle"
                     THEN << Info("Compounded into staking", "", rewards) >>
                     ELSE << >>)
    /\ Return(Closed(WriteReturn(data), "returned"))

\* get_staking_status returns; check_staking stakes or not
get_staking_status ==
    /\ pc = "returned"
    /\ Top.op = "get_staking_status"
    /\ UNCHANGED << now, nfail, ncrash, stop, config, history, tick >>
    /\ IF ReadRaises(Top.op, data)
       THEN /\ logged' = << >>
            /\ Raise(Closed(None, "raised"))
       ELSE LET s == ReadResult(Top.op, data)
                entries == Closed(s, "returned")
            IN  IF ShouldStake(s)
                THEN /\ logged' = << Info("Wallet not staked. Attempting to stake", "", None) >>
                     /\ UNCHANGED << activity, rewards >>
                     /\ Call(entries, "stake_rewards", "")
                ELSE /\ logged' = << Info("Wallet staking is active", "", None) >>
                     /\ Return(entries)

\* a step of the loop of start_bot
Loop ==
    \/ run_pending
    \/ farming_cycle
    \/ compound_cycle
    \/ check_staking
    \/ start_bot_sleep
    \/ start_bot_except
    \/ safe_request
    \/ get_activity_score
    \/ is_peak_time
    \/ perform_farming_action
    \/ get_current_rewards
    \/ claim_rewards
    \/ stake_rewards
    \/ get_staking_status

Next ==
    \/ check_env
    \/ start_bot
    \/ Loop

Spec == Init /\ [][Next]_vars

(***************************************************************************)
(* The state one hour after registration when farming_cycle has raised on  *)
(* every tick since it first became due (ticks at 900, 910, ..., 3590,     *)
(* each ending in the except clause and its 10 second sleep): no job has   *)
(* completed, so every next_run is still the registration value and all    *)
(* three jobs are due at once.  From here on nothing is counted against    *)
(* MaxFails or MaxCrashes, and the clock stands still once it reaches      *)
(* MaxTime (a sleep that would pass it returns at MaxTime), so the loop    *)
(* never blocks.                                                           *)
(***************************************************************************)
DueInit ==
    /\ API_KEY = "set"
    /\ WALLET_ADDRESS = "set"
    /\ jobs = Jobs
    /\ now = COMPOUND_INTERVAL_MINUTES * SECONDS_PER_MINUTE
    /\ next_run = [j \in JobSet |-> Period(j)]
    /\ pc = "loop"
    /\ queue = << >>
    /\ tick = now - CRASH_SLEEP
    /\ last_start = [j \in JobSet |-> IF j = "farming_cycle" THEN tick ELSE -1]
    /\ collected = << "farming_cycle", "check_staking" >>
    /\ ran = << "farming_cycle" >>
    /\ stack = << >>
    /\ attempt = 0
    /\ data = None
    /\ activity = None
    /\ rewards = None
    /\ trace = << >>
    /\ run = NoRun
    /\ logged = << Error("Bot crashed", "") >>
    /\ nfail = 0
    /\ ncrash = 0
    /\ stop = FALSE

DueSpec == DueInit /\ [][Loop]_vars

\* the thread always takes its next step: every sleep and every HTTP attempt returns
FairSpec == DueInit /\ [][Loop]_vars /\ WF_vars(Loop)

(***************************************************************************)
(* The claims.                                                             *)
(***************************************************************************)
Calls == {trace[i] : i \in 1..Len(trace)}

\* C1: every call of safe_request makes at most MAX_RETRIES (3) HTTP attempts,
\* and only the last attempt of a call can be a successful one: after a
\* success no further attempt is made for that call.
C1_AtMostThreeAttempts ==
    \A e \in Calls :
        /\ Tries(e) <= MAX_RETRIES
        /\ \A k \in 1..Len(e.outs) : e.outs[k] = "ok" => k = Len(e.outs)
        /\ Succeeded(e) => e.st # "open"

\* a call that succeeded at its third attempt has returned, and the cycle went on
C1_Witness ==
    \E e \in Calls : e.outs = << "fail", "fail", "ok" >> /\ e.st = "returned"

\* C2: an error raised inside one cycle does not prevent the later runs of
\* any cycle: once a cycle run has raised (the thread is in the except clause
\* of start_bot), every job that is due or later becomes due is eventually
\* run, so no due job is starved by the one that raised.
C2_RaiseStarvesNoJob ==
    \A j \in JobSet :
        [](pc = "except" => [](should_run(j) => <>(run.job = j /\ run.st = "running")))

\* C3: the loop has no terminal state under cycle failures: a cycle run that
\* raises lands in the except clause of start_bot, which emits exactly one
\* error-level 'Bot crashed' entry, sleeps CRASH_SLEEP (10) seconds and goes
\* back to the top of the loop, leaving the schedule as it was.
C3_CrashIsCaughtAndLoopResumes ==
    /\ [](jobs # << >> => pc \in {"loop", "pending", "request", "returned", "except"})
    /\ [][ /\ (run.st = "running" /\ run'.st = "raised") => pc' = "except"
           /\ pc = "except" =>
                 /\ pc' = "loop"
                 /\ logged' = << Error("Bot crashed", "") >>
                 /\ now' = now + CRASH_SLEEP
                 /\ next_run' = next_run ]_vars

\* after a crash the loop is ticking again: run_pending has collected the jobs
C3_Witness == ncrash >= 1 /\ pc = "pending" /\ now >= tick /\ tick > 0

\* C4: at most one cycle is executing at any moment.  The call stack holds
\* one cycle frame at most, a cycle run starts only when no run is in
\* progress, and only for a job that was already due when run_pending
\* collected the runnable jobs: a due time that arrives during a run is
\* served by a later tick.
C4_OneCycleAtATime ==
    /\ [](stack # << >> =>
            /\ run.st = "running"
            /\ stack[1] = run.job
            /\ Cardinality({i \in 1..Len(stack) : stack[i] \in JobSet}) = 1)
    /\ [][ (run' # run /\ run'.st = "running") =>
              /\ run.st # "running"
              /\ stack = << >>
              /\ next_run[run'.job] <= tick ]_vars

\* a job became due while another job's run was in progress
C4_Witness ==
    \E j \in JobSet :
        /\ run.st = "running"
        /\ run.job # j
        /\ should_run(j)
        /\ next_run[j] > tick

\* the cycle run of job j has ended, by returning or by raising
Ended(j) == run.job = j /\ run.st \in {"returned", "raised"}

CallsOf(op) == {e \in Calls : e.op = op}

\* C5: safe_request returns None exactly when all three attempts of the
\* call failed; otherwise it returns the payload decoded by the successful
\* attempt of that call, so absence alone tells a failed call from a
\* successful one.
C5_NoneExactlyWhenAllAttemptsFailed ==
    \A e \in Calls :
        e.st # "open" =>
            /\ (e.res = None) <=> (Fails(e) = MAX_RETRIES /\ ~Succeeded(e))
            /\ Succeeded(e) => e.res = e.got

\* C6: a read operation whose safe_request call exhausted its retries and
\* returned None returns its default (0 for the activity score and the
\* unclaimed rewards, False for the peak and staking flags) and does not raise.
C6_ReadDefaultsOnAbsence ==
    \A e \in Calls :
        (e.op \in ReadOps /\ e.st \notin {"open", "back"} /\ Fails(e) = MAX_RETRIES) =>
            /\ e.st = "returned"
            /\ e.ret = IF e.op \in {"get_activity_score", "get_current_rewards"}
                       THEN Num(0) ELSE Bool(FALSE)

\* both reads of one farming run exhausted their retries and returned defaults
C6_Witness ==
    /\ Len(trace) >= 2
    /\ trace[1].op = "get_activity_score" /\ Fails(trace[1]) = MAX_RETRIES
    /\ trace[1].ret = Num(0)
    /\ trace[2].op = "is_peak_time" /\ Fails(trace[2]) = MAX_RETRIES
    /\ trace[2].st = "returned" /\ trace[2].ret = Bool(FALSE)

\* C7: in every run of farming_cycle a farm action is submitted if and only
\* if the activity score read in that run is >= 75, and its strategy is
\* "peak" if and only if the peak flag read in that run is true.
C7_FarmIffActivityAtLeast75 ==
    Ended("farming_cycle") =>
        LET score == trace[1]
            farms == CallsOf("perform_farming_action")
            high == /\ score.st = "returned"
                    /\ score.ret.t = "num"
                    /\ score.ret.n >= ACTIVITY_THRESHOLD
        IN  /\ (farms # {}) <=> high
            /\ \A e \in farms :
                  /\ trace[2].op = "is_peak_time"
                  /\ (e.arg = "peak") <=> (trace[2].ret = Bool(TRUE))
                  /\ e.arg \in {"peak", "standard"}

\* C8: in every run of compound_cycle a claim and a stake are submitted if
\* the unclaimed amount read in that run is >= 1.0 and neither is submitted
\* otherwise; the claim has returned (all its attempts made) when the stake
\* is called exactly SETTLE_SLEEP (5) seconds later, whatever the claim
\* returned.
C8_ClaimThenStakeIffEnoughRewards ==
    /\ Ended("compound_cycle") =>
          LET amount == trace[1]
              enough == /\ amount.st = "returned"
                        /\ amount.ret.t = "num"
                        /\ amount.ret.n >= REWARD_THRESHOLD
          IN  /\ enough => Len(trace) = 3
              /\ ~enough => Len(trace) = 1
    /\ run.job = "compound_cycle" =>
          /\ \A i \in 1..Len(trace) :
                /\ trace[i].op = "claim_rewards" => i = 2
                /\ trace[i].op = "stake_rewards" => i = 3
                /\ trace[i].op = "get_current_rewards" => i = 1
          /\ Len(trace) = 3 =>
                /\ trace[2].op = "claim_rewards"
                /\ trace[2].st = "returned"
                /\ trace[3].op = "stake_rewards"
                /\ trace[3].t0 = trace[2].t1 + SETTLE_SLEEP
                /\ trace[3].t0 > trace[2].t1

\* the claim failed three times and returned None, and the stake was
\* submitted all the same
C8_Witness ==
    /\ Ended("compound_cycle")
    /\ Len(trace) = 3
    /\ Fails(trace[2]) = MAX_RETRIES
    /\ trace[2].res = None
    /\ Tries(trace[3]) >= 1

\* C9: in every run of check_staking a stake action is submitted if and only
\* if the staking flag read in that run is false; when the flag is true no
\* write operation is called.
C9_StakeIffNotStaked ==
    /\ Ended("check_staking") =>
          LET flag == trace[1]
              unstaked == flag.st = "returned" /\ ~Truthy(flag.ret)
          IN  /\ (CallsOf("stake_rewards") # {}) <=> unstaked
              /\ (flag.st = "returned" /\ Truthy(flag.ret)) => Len(trace) = 1
    /\ run.job = "check_staking" =>
          \A e \in Calls : e.op \in {"get_staking_status", "stake_rewards"}

\* the status read decoded isStaked = false and the stake was submitted
C9_Witness ==
    /\ Ended("check_staking")
    /\ trace[1].got = ObjWith(Bool(FALSE))
    /\ Len(trace) = 2
    /\ trace[2].op = "stake_rewards"
    /\ Tries(trace[2]) >= 1

\* C10: each write operation returns to its caller exactly what
\* safe_request returned for it: the decoded payload, or None.
C10_WritesReturnWhatSafeRequestReturned ==
    \A e \in Calls :
        (e.op \in WriteOps /\ e.st = "returned") => e.ret = e.res

\* C10 as amended: each write operation returns None whatever safe_request
\* returned for it; the operation itself branches on the result, logging
\* an info entry when it is truthy and an error entry when it is not.
C10_WritesReturnNone ==
    /\ \A e \in Calls :
          (e.op \in WriteOps /\ e.st = "returned") => e.ret = None
    /\ (pc = "pending" /\ run.st = "returned" /\ Top.op \in WriteOps) =>
          logged[1].level = IF Truthy(Top.res) THEN "info" ELSE "error"
    /\ (pc = "request" /\ Top.op = "stake_rewards" /\ Tries(Top) = 0 /\ Len(trace) = 3) =>
          logged[1].level = IF Truthy(trace[2].res) THEN "info" ELSE "error"

\* a write operation whose request decoded a payload has returned None
C10_Witness ==
    \E e \in Calls :
        /\ e.op \in WriteOps
        /\ e.st = "returned"
        /\ e.res = ObjWithout
        /\ e.ret = None

\* the type of the field a read operation expects in its payload
Expected(op) ==
    IF op \in {"get_activity_score", "get_current_rewards"} THEN "num" ELSE "bool"

\* a decoded payload that is not an object with the expected field of the expected type
Unexpected(op, p) == p.t # "obj" \/ p.ft # Expected(op)

\* C11: a read operation that received a payload of unexpected shape (not an
\* object, or an object whose expected field is missing or of the wrong
\* type) returns its default (0 or False), and neither the operation nor
\* the calling cycle raises.
C11_UnexpectedShapeReadsAsAbsence ==
    \A e \in Calls :
        (e.op \in ReadOps /\ Succeeded(e) /\ Unexpected(e.op, e.got)
                          /\ e.st \notin {"open", "back"}) =>
            /\ e.st = "returned"
            /\ e.ret = Default(e.op)
            /\ run.st # "raised"

\* the environment lacks a usable value of one of the two variables
Unconfigured == API_KEY \in {"None", ""} \/ WALLET_ADDRESS \in {"None", ""}

\* C12: if the account identifier or the bearer credential is missing or
\* empty at start, the process fails with a startup error before any job is
\* registered, before the loop is entered and before any HTTP request is
\* sent; if both are present, no startup error is raised.
C12_StartupErrorIffUnconfigured ==
    /\ Unconfigured =>
          /\ pc \in {"import", "EnvironmentError"}
          /\ jobs = << >>
          /\ trace = << >> /\ run = NoRun /\ nfail = 0
    /\ ~Unconfigured => pc # "EnvironmentError"
    /\ pc = "EnvironmentError" => ~ENABLED Next

\* the import failed on an empty credential although the wallet address is set
C12_Witness ==
    /\ pc = "EnvironmentError"
    /\ API_KEY = ""
    /\ WALLET_ADDRESS = "set"

\* C13: a call of safe_request with f failed attempts has logged exactly f
\* "Request error" entries, one per failed attempt, and exactly one "Max
\* retries reached" entry naming the url if f = 3 and none otherwise; a
\* read operation whose three attempts failed returns its default with
\* those three plus one error entries logged.
C13_OneErrorEntryPerFailedAttempt ==
    /\ \A e \in Calls :
          /\ e.errs = Fails(e)
          /\ e.maxed = IF Fails(e) = MAX_RETRIES THEN 1 ELSE 0
          /\ (e.op \in ReadOps /\ Fails(e) = MAX_RETRIES /\ e.st \notin {"open", "back"}) =>
                /\ e.st = "returned" /\ e.ret = Default(e.op)
                /\ e.errs + e.maxed = MAX_RETRIES + 1
    /\ (pc = "request" /\ attempt > 0) =>
          logged = << [level |-> "error", msg |-> "Request error", text |-> Url(Top.op),
                       val |-> None] >>
    /\ (pc = "returned" /\ Top.st = "back" /\ ~Succeeded(Top)) =>
          logged = << [level |-> "error", msg |-> "Request error", text |-> Url(Top.op),
                       val |-> None],
                      [level |-> "error", msg |-> "Max retries reached",
                       text |-> Url(Top.op), val |-> None] >>

\* a read of the unclaimed rewards failed three times and returned 0
C13_Witness ==
    \E e \in Calls :
        /\ e.op = "get_current_rewards"
        /\ Fails(e) = MAX_RETRIES
        /\ e.errs = 3 /\ e.maxed = 1
        /\ e.st = "returned" /\ e.ret = Num(0)

\* job j starts a run in this step
Starts(j) == run'.job = j /\ run'.st = "running" /\ run.st # "running"

\* C14: in every execution, including those in which a cycle run raises, no
\* cycle runs before its interval has elapsed since registration (time 0),
\* and the starts of two consecutive runs of the same cycle are at least
\* its interval apart, whatever the other cycles do.
C14_StartsAtLeastOneIntervalApart ==
    [][\A j \in JobSet :
          Starts(j) =>
              /\ now >= Period(j)
              /\ last_start[j] >= 0 => now - last_start[j] >= Period(j)]_vars

\* C15: on each tick every job due at that tick is run exactly once during
\* that tick, one after another in the order in which they became due; the
\* time a job takes only delays the later due jobs of the tick and leaves
\* their due times, and whether they are run in that tick, unchanged.
C15_EveryDueJobRunsOnceInDueOrder ==
    /\ (pc = "pending" /\ ran = << >>) =>
          /\ \A j \in JobSet : (\E i \in 1..Len(collected) : collected[i] = j)
                                  <=> next_run[j] <= tick
          /\ \A i, k \in 1..Len(collected) :
                i < k => /\ collected[i] # collected[k]
                         /\ next_run[collected[i]] <= next_run[collected[k]]
    /\ pc \in {"pending", "request", "returned"} =>
          /\ ran \o queue = collected
          /\ \A i \in 1..Len(queue) : next_run[queue[i]] <= tick
    /\ pc \in {"loop", "except"} => ran = collected

\* the write operations a cycle may call
OwnWrites(j) ==
    CASE j = "farming_cycle" -> {"perform_farming_action"}
      [] j = "compound_cycle" -> {"claim_rewards", "stake_rewards"}
      [] j = "check_staking" -> {"stake_rewards"}
      [] OTHER -> {}

\* a farming run that read the activity score 80 and the peak flag false
ScenarioA ==
    /\ Ended("farming_cycle")
    /\ Len(trace) >= 2
    /\ trace[1].st = "returned" /\ trace[1].ret = Num(80)
    /\ trace[2].st = "returned" /\ trace[2].ret = Bool(FALSE)

\* C16: within one invocation a cycle calls only its own write operations
\* (farming_cycle the farm submission; compound_cycle one claim and one
\* stake; check_staking the stake), each at most once, and no cycle
\* invokes another cycle; a farming run that reads activity 80 and peak
\* false makes exactly one farm submission, with strategy "standard", and
\* sends it to the API (by the attempts of that one safe_request call).
C16_OnlyOwnWritesEachAtMostOnce ==
    /\ \A i \in 1..Len(trace) :
          trace[i].op \in WriteOps =>
              /\ trace[i].op \in OwnWrites(run.job)
              /\ \A k \in 1..Len(trace) : trace[k].op = trace[i].op => k = i
    /\ stack # << >> =>
          /\ stack[1] = run.job
          /\ Len(stack) = 2
          /\ stack[2] \in Ops
    /\ ScenarioA =>
          /\ Len(trace) = 3
          /\ trace[3].op = "perform_farming_action"
          /\ trace[3].arg = "standard"
          /\ Tries(trace[3]) \in 1..MAX_RETRIES

\* such a run has ended and its one farm submission was accepted
C16_Witness ==
    /\ ScenarioA
    /\ Len(trace) = 3
    /\ trace[3].arg = "standard"
    /\ Succeeded(trace[3])

\* C17: within one call of safe_request the delay waited after failed
\* attempt k is 2k seconds (2, 4, 6), so the delays strictly increase, and
\* each delay is waited only before a following attempt: a call that is
\* over has waited fewer times than it made attempts.
C17_BackoffOnlyBeforeAnotherAttempt ==
    \A e \in Calls :
        /\ \A k \in 1..Len(e.waits) :
              /\ e.waits[k] = 2 * k
              /\ e.outs[k] = "fail"
              /\ k > 1 => e.waits[k - 1] < e.waits[k]
        /\ e.st # "open" => Len(e.waits) < Tries(e)

\* the first read of the current run of cycle j failed on all three attempts
FirstReadFailed(j) ==
    /\ run.job = j
    /\ trace # << >>
    /\ Fails(trace[1]) = MAX_RETRIES
    /\ trace[1].st \notin {"open", "back"}

\* C18: a read that failed on all three attempts counts as its default in
\* the cycle's decision: check_staking then submits a stake request;
\* farming_cycle submits no farm action; compound_cycle submits neither a
\* claim nor a stake.
C18_FailedReadDecidesAsDefault ==
    /\ FirstReadFailed("check_staking") =>
          /\ Len(trace) = 2
          /\ trace[2].op = "stake_rewards"
          /\ Ended("check_staking") => Tries(trace[2]) >= 1
    /\ FirstReadFailed("farming_cycle") => CallsOf("perform_farming_action") = {}
    /\ FirstReadFailed("compound_cycle") => Len(trace) = 1

\* check_staking could not read the status and has submitted a stake request
C18_Witness ==
    /\ FirstReadFailed("check_staking")
    /\ Ended("check_staking")
    /\ trace[2].op = "stake_rewards"
    /\ Succeeded(trace[2])

\* the HTTP attempts the calls of s made, all together
RECURSIVE Attempts(_)
Attempts(s) == IF s = << >> THEN 0 ELSE Tries(Head(s)) + Attempts(Tail(s))

\* C19: every invocation of a cycle terminates, after at most 9 HTTP
\* attempts for farming_cycle, 9 for compound_cycle and 6 for check_staking.
C19_EveryCycleRunTerminates ==
    /\ [](/\ run.job = "farming_cycle" => Attempts(trace) <= 9
          /\ run.job = "compound_cycle" => Attempts(trace) <= 9
          /\ run.job = "check_staking" => Attempts(trace) <= 6)
    /\ [](run.st = "running" => <>(run.st \in {"returned", "raised"}))

\* a farming run has ended after nine attempts: three for each of its calls
C19_Witness ==
    /\ Ended("farming_cycle")
    /\ run.st = "returned"
    /\ Len(trace) = 3
    /\ Attempts(trace) = 9

====
